---- MODULE Spec2Model ----
(***************************************************************************)
(* Model of scripts/auto_pubmed_pmc_to_zotero.py: the incremental          *)
(* PubMed -> Zotero synchronisation (state file, per-topic deduplication,  *)
(* batched destination write, state update on confirmed success).          *)
(***************************************************************************)
EXTENDS Integers, Sequences, FiniteSets, TLC

\* ---------------------------------------------------------------- bounds
\* Number of configured topics (the script configures ten).
NumTopics == 2
\* PMIDs are 1..NumIds.
NumIds == 2
\* Longest idlist a search returns (retmax in the script).
MaxFound == 2
\* Number of invocations of main that are explored.
MaxRuns == 2

\* ---------------------------------------------------------------- data
\* TOPICS: topic i is named i; its collection key is i as well.
TOPICS == [i \in 1..NumTopics |-> [name |-> i, collection |-> i]]

TopicNames == {TOPICS[i].name : i \in 1..NumTopics}

\* A --topic value that names no configured topic.
UnknownTopic == NumTopics + 1

Pmids == 1..NumIds

\* Every idlist a search can return: order matters, repeats allowed.
IdLists == UNION {[1..n -> Pmids] : n \in 0..MaxFound}

\* A key that is absent from a topic's dict / a timestamp that is None.
None == 0

\* One entry of state["topics"]: present = the key exists in the dict.
AbsentTopic == [present |-> FALSE, processed_pmids |-> <<>>, last_update |-> None]

\* {"last_run": None, "topics": {}}.  shape tells what kind of JSON value the
\* state is: "RunState" is an object with last_run and topics.
EmptyState ==
    [shape |-> "RunState", last_run |-> None,
     topics |-> [t \in TopicNames |-> AbsentTopic]]

\* A state file that json.load parses to something else than an object (a
\* list, a string, null): every dict method called on it raises.
NotAnObject == [EmptyState EXCEPT !.shape = "not_an_object"]

\* The state file as the first invocation finds it.
InitialFiles ==
    {[kind |-> "absent", doc |-> EmptyState], [kind |-> "doc", doc |-> NotAnObject]}

Range(s) == {s[i] : i \in 1..Len(s)}

IsPrefix(s, t) == Len(s) <= Len(t) /\ SubSeq(t, 1, Len(s)) = s

NoDuplicates(s) == \A i, j \in 1..Len(s) : i # j => s[i] # s[j]

\* ---------------------------------------------------------------- state file
\* load_state: a missing file and a file json.load cannot parse both give the
\* empty state; a parsed document is returned as it is.
load_state(f) ==
    IF f.kind = "doc" THEN f.doc ELSE EmptyState

\* save_state: stamps last_run on the in-memory state, then overwrites the
\* file.  outcome "ok": the document is written; "open_failed": open() raised,
\* the file is as before; "write_failed": open() truncated the file and
\* json.dump raised part-way, the file holds a fragment json.load rejects.
StampLastRun(st, now) == [st EXCEPT !.last_run = now]

save_state(st, f, now, outcome) ==
    CASE outcome = "ok" -> [kind |-> "doc", doc |-> StampLastRun(st, now)]
      [] outcome = "open_failed" -> f
      [] outcome = "write_failed" -> [kind |-> "garbage", doc |-> EmptyState]

SaveOutcomes == {"ok", "open_failed", "write_failed"}

\* ---------------------------------------------------------------- PubMed
\* A response of the search API: "ok" carries the idlist; "request_error" is
\* any requests.exceptions.RequestException (timeout, connection error, HTTP
\* error status after the retries); "bad_payload" is a 200 response whose JSON
\* body is not an object, on which data.get raises AttributeError.
SearchResponses ==
    {[kind |-> "ok", idlist |-> l] : l \in IdLists}
        \cup {[kind |-> k, idlist |-> <<>>] : k \in {"request_error", "bad_payload"}}

\* esearch_pubmed: [raised, value]; only RequestException is caught.
esearch_pubmed(resp) ==
    CASE resp.kind = "ok" -> [raised |-> FALSE, value |-> resp.idlist]
      [] resp.kind = "request_error" -> [raised |-> FALSE, value |-> <<>>]
      [] resp.kind = "bad_payload" -> [raised |-> TRUE, value |-> <<>>]

\* A response of the summary API: "ok" carries the uids that have an entry.
SummaryResponses ==
    {[kind |-> "ok", uids |-> u] : u \in SUBSET Pmids}
        \cup {[kind |-> k, uids |-> {}] : k \in {"request_error", "bad_payload"}}

\* fetch_pubmed_summaries: the set of pmids a summary was returned for.
fetch_pubmed_summaries(pmids, resp) ==
    IF pmids = <<>> THEN [raised |-> FALSE, value |-> {}]
    ELSE CASE resp.kind = "ok" -> [raised |-> FALSE, value |-> resp.uids]
           [] resp.kind = "request_error" -> [raised |-> FALSE, value |-> {}]
           [] resp.kind = "bad_payload" -> [raised |-> TRUE, value |-> {}]

\* ---------------------------------------------------------------- Zotero
\* make_zotero_item: the title comes from the summary, or is the placeholder
\* "PMID <pmid>" when there is none; two tags, auto:pubmed and topic:<name>.
make_zotero_item(pmid, has_summary, topic_name, collection_key) ==
    [pmid |-> pmid,
     title |-> IF has_summary THEN "summary" ELSE "placeholder",
     tags |-> <<"auto:pubmed", topic_name>>]

\* What the destination does with a POST: "created" = HTTP 200/201,
\* "http_error" = another status, "timeout", "request_error".
WriteOutcomes == {"created", "http_error", "timeout", "request_error"}

\* Retry(total=3): the number of automatic re-sends of one request.
RetryTotal == 3

\* What one POST on the wire meets.  "created": the destination creates the
\* items and answers 200/201.  "rejected": it answers a status outside
\* status_forcelist.  "retry": it answers a status of status_forcelist (429,
\* 500, 502, 503, 504), or the read fails, before it created anything.
\* "retry_after_create": the same after it created the items (a gateway's 502
\* or 504, a response that is lost).
AttemptAnswers == {"created", "rejected", "retry", "retry_after_create"}

Retryable(a) == a \in {"retry", "retry_after_create"}

\* The answers to the successive POSTs of one SESSION.post: every answer but
\* the last is retried, and the last is final or uses up the retries.
AttemptSeqs ==
    {a \in UNION {[1..n -> AttemptAnswers] : n \in 1..(RetryTotal + 1)} :
        /\ \A i \in 1..(Len(a) - 1) : Retryable(a[i])
        /\ Retryable(a[Len(a)]) => Len(a) = RetryTotal + 1}

\* SESSION.post under the Retry adapter (POST is in allowed_methods): final is
\* what push_to_zotero sees, created the number of the POSTs sent on which the
\* destination created the items.
session_post(answers) ==
    LET n == Len(answers)
    IN  [final |-> CASE answers[n] = "created" -> "created"
                     [] answers[n] = "rejected" -> "http_error"
                     [] Retryable(answers[n]) -> "request_error",
         created |-> Cardinality({i \in 1..n :
                                    answers[i] \in {"created", "retry_after_create"}})]

\* What happened on the wire under one push_to_zotero: created as above;
\* accepted, the pmids whose records the destination's final 200/201 response
\* reports as successful.
NoWire == [created |-> 0, accepted |-> {}]

\* The same without the dry_run branch: a preview posts like a real run.
push_to_zotero_NoPreview(items, dry_run, creds, outcome) ==
    CASE items = <<>> -> [written |-> 0, sent |-> FALSE]
      [] items # <<>> /\ ~creds -> [written |-> 0, sent |-> FALSE]
      [] items # <<>> /\ creds ->
            [written |-> IF outcome = "created" THEN Len(items) ELSE 0,
             sent |-> TRUE]

\* push_to_zotero: [written, sent]; sent = a POST left for api.zotero.org.
push_to_zotero(items, dry_run, creds, outcome) ==
    CASE items = <<>> -> [written |-> 0, sent |-> FALSE]
      [] items # <<>> /\ dry_run -> [written |-> Len(items), sent |-> FALSE]
      [] items # <<>> /\ ~dry_run /\ ~creds -> [written |-> 0, sent |-> FALSE]
      [] items # <<>> /\ ~dry_run /\ creds ->
            [written |-> IF outcome = "created" THEN Len(items) ELSE 0,
             sent |-> TRUE]

\* ---------------------------------------------------------------- process_topic
\* The same as a plain assignment: an entry that exists is replaced as well.
setdefault_topic_Overwrite(st, name) ==
    [st EXCEPT !.topics[name] =
        [present |-> TRUE, processed_pmids |-> <<>>, last_update |-> None]]

\* state.setdefault("topics", {}).setdefault(name, {"processed_pmids": []})
setdefault_topic(st, name) ==
    IF st.topics[name].present THEN st
    ELSE [st EXCEPT !.topics[name] =
            [present |-> TRUE, processed_pmids |-> <<>>, last_update |-> None]]

\* The same over all topics: the pmids recorded for any topic.
ProcessedSet_AllTopics(st, name) ==
    UNION {Range(st.topics[t].processed_pmids) : t \in TopicNames}

\* processed_set = set(topic_state.get("processed_pmids", []))
ProcessedSet(st, name) == Range(st.topics[name].processed_pmids)

\* The same without the membership test: every found pmid counts as new.
NewPmids_NoFilter(pmids, processed_set) == pmids

\* new_pmids = [p for p in pmids if p not in processed_set]
NewPmids(pmids, processed_set) ==
    SelectSeq(pmids, LAMBDA p : p \notin processed_set)

\* The same, skipping the pmids that have no summary.
BuildItems_SkipMissing(new_pmids, summaries, name, collection) ==
    LET with_summary == SelectSeq(new_pmids, LAMBDA p : p \in summaries)
    IN  [i \in 1..Len(with_summary) |->
            make_zotero_item(with_summary[i], TRUE, name, collection)]

\* items: one make_zotero_item per entry of new_pmids, with summaries.get(pmid, {}).
BuildItems(new_pmids, summaries, name, collection) ==
    [i \in 1..Len(new_pmids) |->
        make_zotero_item(new_pmids[i], new_pmids[i] \in summaries, name, collection)]

\* The same with the new pmids put in front of the recorded ones.
UpdateTopicState_Prepend(topic_state, processed, new_pmids, written, dry_run, now) ==
    IF written > 0 /\ ~dry_run
    THEN [topic_state EXCEPT !.processed_pmids = new_pmids \o processed,
                             !.last_update = now]
    ELSE topic_state

\* The same without the test of written: a failed write is credited too.
UpdateTopicState_Always(topic_state, processed, new_pmids, written, dry_run, now) ==
    IF ~dry_run
    THEN [topic_state EXCEPT !.processed_pmids = processed \o new_pmids,
                             !.last_update = now]
    ELSE topic_state

\* The same without the append: only the time is stamped.
UpdateTopicState_NoAppend(topic_state, processed, new_pmids, written, dry_run, now) ==
    IF written > 0 /\ ~dry_run
    THEN [topic_state EXCEPT !.last_update = now]
    ELSE topic_state

\* The same without the stamp: only the pmids are appended.
UpdateTopicState_NoStamp(topic_state, processed, new_pmids, written, dry_run, now) ==
    IF written > 0 /\ ~dry_run
    THEN [topic_state EXCEPT !.processed_pmids = processed \o new_pmids]
    ELSE topic_state

\* if written > 0 and not dry_run: processed_pmids = processed + new_pmids and
\* last_update = now; otherwise the topic's entry is left as it is.
UpdateTopicState(topic_state, processed, new_pmids, written, dry_run, now) ==
    IF written > 0 /\ ~dry_run
    THEN [topic_state EXCEPT !.processed_pmids = processed \o new_pmids,
                             !.last_update = now]
    ELSE topic_state

\* What one call of process_topic did.  search: the kind of answer the search
\* got; raised: an exception left the call; processed: the topic's
\* processed_pmids when the call began; ret: the returned (total_found, new,
\* written); batch: the items given to push_to_zotero (<<>> when it was not
\* called); sent: a POST was sent.
\* wire: what happened on the wire, when that is watched.
CallRecord(name, dry_run, search, raised, processed, pmids, new_pmids, batch, sent, wire, ret) ==
    [topic |-> name, dry_run |-> dry_run, search |-> search, raised |-> raised,
     processed |-> processed, pmids |-> pmids, new_pmids |-> new_pmids,
     batch |-> batch, sent |-> sent, wire |-> wire, ret |-> ret]

NoCall ==
    CallRecord(None, FALSE, "none", FALSE, <<>>, <<>>, <<>>, <<>>, FALSE, NoWire,
               <<0, 0, 0>>)

\* process_topic: [state, call], the state dict after the call and its record.
\* env = [search, summary, write, wire]: what the three services answer, and
\* what happened on the wire under the POST.  On a state
\* that is not an object, state.setdefault raises before any request is made.
process_topic(topic, st, dry_run, creds, now, env) ==
    LET name == topic.name
        st1 == setdefault_topic(st, name)
        topic_state == st1.topics[name]
        processed == topic_state.processed_pmids
        processed_set == ProcessedSet(st1, name)
        search == esearch_pubmed(env.search)
        pmids == search.value
        total_found == Len(pmids)
        new_pmids == NewPmids(pmids, processed_set)
        fetched == fetch_pubmed_summaries(new_pmids, env.summary)
        items == BuildItems(new_pmids, fetched.value, name, topic.collection)
        push == push_to_zotero(items, dry_run, creds, env.write)
        written == push.written
        updated == UpdateTopicState(topic_state, processed, new_pmids, written,
                                    dry_run, now)
    IN  CASE st.shape # "RunState" ->
                [state |-> st,
                 call |-> CallRecord(name, dry_run, "none", TRUE, <<>>,
                                     <<>>, <<>>, <<>>, FALSE, NoWire, <<0, 0, 0>>)]
          [] st.shape = "RunState" /\ search.raised ->
                [state |-> st1,
                 call |-> CallRecord(name, dry_run, env.search.kind, TRUE, processed,
                                     <<>>, <<>>, <<>>, FALSE, NoWire, <<0, 0, 0>>)]
          [] st.shape = "RunState" /\ ~search.raised /\ new_pmids = <<>> ->
                [state |-> st1,
                 call |-> CallRecord(name, dry_run, env.search.kind, FALSE, processed,
                                     pmids, <<>>, <<>>, FALSE, NoWire,
                                     <<total_found, 0, 0>>)]
          [] st.shape = "RunState" /\ ~search.raised /\ new_pmids # <<>> /\ fetched.raised ->
                [state |-> st1,
                 call |-> CallRecord(name, dry_run, env.search.kind, TRUE, processed,
                                     pmids, new_pmids, <<>>, FALSE, NoWire, <<0, 0, 0>>)]
          [] st.shape = "RunState" /\ ~search.raised /\ new_pmids # <<>> /\ ~fetched.raised ->
                [state |-> [st1 EXCEPT !.topics[name] = updated],
                 call |-> CallRecord(name, dry_run, env.search.kind, FALSE, processed,
                                     pmids, new_pmids, items, push.sent,
                                     IF push.sent THEN env.wire ELSE NoWire,
                                     <<total_found, Len(new_pmids), written>>)]

\* The answers the services give to the requests one call makes: a search
\* response; a summary response for the new pmids, when the call gets that far;
\* an outcome of the POST, when one is sent.  A request that is not made has
\* the answer "none".  detail: the wire under the POST is watched; the outcome
\* of the POST is then what session_post makes of the answers to its attempts.
NoSummary == [kind |-> "none", uids |-> {}]

Environments(topic, st, dry_run, creds, detail) ==
    LET processed_set == ProcessedSet(setdefault_topic(st, topic.name), topic.name)
        NewFor(s) == NewPmids(esearch_pubmed(s).value, processed_set)
        SummariesFor(s) ==
            IF esearch_pubmed(s).raised \/ NewFor(s) = <<>> THEN {NoSummary}
            ELSE {m \in SummaryResponses : m.uids \subseteq Range(NewFor(s))}
        Posted(m) == ~(m.kind \in {"none", "bad_payload"} \/ dry_run \/ ~creds)
        WritesFor(s, m) ==
            CASE ~Posted(m) -> {[write |-> "none", wire |-> NoWire]}
              [] Posted(m) /\ ~detail ->
                    {[write |-> w, wire |-> NoWire] : w \in WriteOutcomes}
              [] Posted(m) /\ detail ->
                    UNION {LET post == session_post(a)
                           IN  {[write |-> post.final,
                                 wire |-> [created |-> post.created, accepted |-> acc]] :
                                    acc \in IF post.final = "created"
                                            THEN SUBSET Range(NewFor(s)) ELSE {{}}}
                           : a \in AttemptSeqs}
    IN  IF st.shape # "RunState"
        THEN {[search |-> [kind |-> "none", idlist |-> <<>>], summary |-> NoSummary,
               write |-> "none", wire |-> NoWire]}
        ELSE UNION {UNION {{[search |-> s, summary |-> m, write |-> w.write,
                             wire |-> w.wire] : w \in WritesFor(s, m)}
                            : m \in SummariesFor(s)} : s \in SearchResponses}

\* ---------------------------------------------------------------- main
VARIABLES
    file,       \* the durable state file: [kind, doc]
    state,      \* main's state dict (the loaded state, updated in place)
    pre,        \* the state as loaded at the start of the current run
    args,       \* the parsed command line of the current run
    creds,      \* ZOTERO_USER_ID and ZOTERO_API_KEY are both set
    pc,         \* where main is: "idle", "loop", "done", "exit", "crashed"
    idx,        \* index in topics_to_process of the next topic
    results,    \* results["topics"]
    last,       \* the record of the process_topic call of the latest loop iteration
    prev,       \* what hist held when that call began, if it is the watched topic's
    hist,       \* the latest call of process_topic for the watched topic
    runs,       \* number of invocations of main so far; the clock
    rc,         \* main's return value / the process exit status, -1 while running
    saves,      \* number of save_state calls in the current run
    dest        \* what the destination confirmed as written, for the watched topic

vars == <<file, state, pre, args, creds, pc, idx, results, last, prev, hist, runs,
          rc, saves, dest>>

\* parse_args: --dry-run, --topic NAME (None when not given), --status,
\* --list-topics; --days, --retmax and the logging options do not change the
\* synchronisation and are left out.
Args ==
    [dry_run : BOOLEAN, topic : {None} \cup TopicNames \cup {UnknownTopic},
     status : BOOLEAN, list_topics : BOOLEAN]

NoArgs == [dry_run |-> FALSE, topic |-> None, status |-> FALSE, list_topics |-> FALSE]

\* topics_to_process: TOPICS, or the topics named args.topic.
topics_to_process(a) ==
    IF a.topic = None THEN TOPICS
    ELSE SelectSeq(TOPICS, LAMBDA t : t.name = a.topic)

\* What is remembered of the watched topic's calls for its next call.  Of the
\* latest call: the search result, the (new, written) it returned and the
\* topic's processed_pmids when it returned; ran is FALSE when there is no
\* earlier call, or it was a preview, or an exception left it.  pending: the
\* pmids of the batches whose write reported zero successes, until a search
\* returns them again.
Watch(name) ==
    [topic |-> name, ran |-> FALSE, pmids |-> <<>>, new |-> 0, written |-> 0,
     after |-> <<>>, pending |-> {}]

NoHist == Watch(None)

HistOf(h, call, after) ==
    LET failed == IF ~call.raised /\ ~call.dry_run /\ call.batch # <<>> /\ call.ret[3] = 0
                  THEN Range(call.new_pmids) ELSE {}
        pending == (h.pending \ Range(call.pmids)) \cup failed
    IN  IF call.raised \/ call.dry_run
        THEN [Watch(call.topic) EXCEPT !.pending = pending]
        ELSE [topic |-> call.topic, ran |-> TRUE, pmids |-> call.pmids,
              new |-> call.ret[2], written |-> call.ret[3], after |-> after,
              pending |-> pending]

\* The destination as seen from one watched topic.  confirmed: the pmids the
\* destination reported as successfully written for the topic.
WatchDest(name) == [topic |-> name, confirmed |-> {}]

NoDest == WatchDest(None)

DestOf(d, call) ==
    [d EXCEPT !.confirmed = @ \cup (IF call.sent /\ call.ret[3] > 0
                                    THEN call.wire.accepted ELSE {})]

Init ==
    /\ file \in InitialFiles
    /\ state = EmptyState
    /\ pre = EmptyState
    /\ args = NoArgs
    /\ creds = FALSE
    /\ pc = "idle"
    /\ idx = 1
    /\ results = <<>>
    /\ last = NoCall
    /\ prev = NoHist
    /\ hist = NoHist
    /\ runs = 0
    /\ rc = -1
    /\ saves = 0
    /\ dest = NoDest

\* The same, with the calls of one topic remembered from run to run.
InitRepeat ==
    /\ file \in InitialFiles
    /\ state = EmptyState
    /\ pre = EmptyState
    /\ args = NoArgs
    /\ creds = FALSE
    /\ pc = "idle"
    /\ idx = 1
    /\ results = <<>>
    /\ last = NoCall
    /\ prev = NoHist
    /\ hist \in {Watch(t) : t \in TopicNames}
    /\ runs = 0
    /\ rc = -1
    /\ saves = 0
    /\ dest = NoDest

\* The same, with the wire and the destination watched for one topic.
InitDest ==
    /\ file \in InitialFiles
    /\ state = EmptyState
    /\ pre = EmptyState
    /\ args = NoArgs
    /\ creds = FALSE
    /\ pc = "idle"
    /\ idx = 1
    /\ results = <<>>
    /\ last = NoCall
    /\ prev = NoHist
    /\ hist = NoHist
    /\ runs = 0
    /\ rc = -1
    /\ saves = 0
    /\ dest \in {WatchDest(t) : t \in TopicNames}

Stopped == pc \in {"done", "exit", "crashed"}

\* A new process: the module constants are read from the environment, the
\* arguments parsed, the state loaded.
Begin(a, c) ==
    /\ pc = "idle"
    /\ runs < MaxRuns
    /\ runs' = runs + 1
    /\ args' = a
    /\ creds' = c
    /\ state' = load_state(file)
    /\ pre' = load_state(file)
    /\ idx' = 1
    /\ results' = <<>>
    /\ last' = NoCall
    /\ prev' = NoHist
    /\ saves' = 0
    /\ UNCHANGED <<file, hist, dest>>

\* main with --status: show_status, return 0.  On a state that is not an
\* object, state.get raises in show_status and the process dies.
ShowStatus ==
    \E a \in Args, c \in BOOLEAN :
        /\ a.status
        /\ Begin(a, c)
        /\ IF load_state(file).shape = "RunState"
           THEN pc' = "exit" /\ rc' = 0
           ELSE pc' = "crashed" /\ rc' = 1

\* main with --list-topics (and no --status): list_topics, return 0.
ListTopics ==
    \E a \in Args, c \in BOOLEAN :
        /\ ~a.status /\ a.list_topics
        /\ Begin(a, c)
        /\ pc' = "exit"
        /\ rc' = 0

\* main with --topic naming no configured topic: return 1.
UnknownTopicExit ==
    \E a \in Args, c \in BOOLEAN :
        /\ ~a.status /\ ~a.list_topics
        /\ topics_to_process(a) = <<>>
        /\ Begin(a, c)
        /\ pc' = "exit"
        /\ rc' = 1

\* main up to the topic loop.
StartRun ==
    \E a \in Args, c \in BOOLEAN :
        /\ ~a.status /\ ~a.list_topics
        /\ topics_to_process(a) # <<>>
        /\ Begin(a, c)
        /\ pc' = "loop"
        /\ rc' = -1

\* One iteration of the loop over topics_to_process: process_topic and the
\* entry appended to results["topics"].  An exception that leaves
\* process_topic leaves main as well: the process dies with exit status 1.
ProcessTopic ==
    /\ pc = "loop"
    /\ idx <= Len(topics_to_process(args))
    /\ \E env \in Environments(topics_to_process(args)[idx], state, args.dry_run, creds,
                                dest.topic = topics_to_process(args)[idx].name) :
        LET topic == topics_to_process(args)[idx]
            r == process_topic(topic, state, args.dry_run, creds, runs, env)
        IN  /\ state' = r.state
            /\ last' = r.call
            /\ prev' = IF hist.topic = topic.name THEN hist ELSE NoHist
            /\ hist' = IF hist.topic = topic.name
                       THEN HistOf(hist, r.call,
                                   r.state.topics[topic.name].processed_pmids)
                       ELSE hist
            /\ dest' = IF dest.topic = topic.name /\ state.shape = "RunState"
                       THEN DestOf(dest, r.call)
                       ELSE dest
            /\ IF r.call.raised
               THEN /\ pc' = "crashed"
                    /\ rc' = 1
                    /\ UNCHANGED <<idx, results>>
               ELSE /\ results' = Append(results,
                                     [name |-> topic.name, found |-> r.call.ret[1],
                                      new |-> r.call.ret[2], written |-> r.call.ret[3]])
                    /\ idx' = idx + 1
                    /\ UNCHANGED <<pc, rc>>
    /\ UNCHANGED <<file, pre, args, creds, runs, saves>>

\* After the loop: save_state unless --dry-run, then return 0.
Finish ==
    /\ pc = "loop"
    /\ idx > Len(topics_to_process(args))
    /\ IF args.dry_run
       THEN UNCHANGED <<file, state, saves>>
       ELSE \E outcome \in SaveOutcomes :
                /\ state' = StampLastRun(state, runs)
                /\ file' = save_state(state, file, runs, outcome)
                /\ saves' = saves + 1
    /\ pc' = "done"
    /\ rc' = 0
    /\ last' = NoCall
    /\ prev' = NoHist
    /\ UNCHANGED <<pre, args, creds, idx, results, hist, runs, dest>>

\* sys.exit(main()): the process ends and its memory is gone; the state file
\* stays.
ProcessExit ==
    /\ Stopped
    /\ pc' = "idle"
    /\ state' = EmptyState
    /\ pre' = EmptyState
    /\ args' = NoArgs
    /\ creds' = FALSE
    /\ idx' = 1
    /\ results' = <<>>
    /\ last' = NoCall
    /\ prev' = NoHist
    /\ rc' = -1
    /\ saves' = 0
    /\ UNCHANGED <<file, hist, runs, dest>>

Next ==
    \/ ShowStatus
    \/ ListTopics
    \/ UnknownTopicExit
    \/ StartRun
    \/ ProcessTopic
    \/ Finish
    \/ ProcessExit

Spec == Init /\ [][Next]_vars

\* Repeated runs, the calls of one topic remembered for that topic's next call.
SpecRepeat == InitRepeat /\ [][Next]_vars

\* Repeated runs, the wire and the destination watched for one topic.
SpecDest == InitDest /\ [][Next]_vars

\* ---------------------------------------------------------------- properties
TypeOK ==
    /\ file.kind \in {"absent", "garbage", "doc"}
    /\ pc \in {"idle", "loop", "done", "exit", "crashed"}
    /\ runs \in 0..MaxRuns
    /\ rc \in {-1, 0, 1}
    /\ saves \in 0..1
    /\ idx \in 1..(NumTopics + 1)
    /\ Len(results) <= NumTopics

\* The pmids of the records of a batch, in order.
BatchPmids(batch) == [i \in 1..Len(batch) |-> batch[i].pmid]

\* A call of process_topic has just returned or raised.
Called == last.topic # None

\* The topic's entry is as it was loaded: same processed_pmids, same last_update.
TopicAsLoaded(t) ==
    /\ state.topics[t].processed_pmids = pre.topics[t].processed_pmids
    /\ state.topics[t].last_update = pre.topics[t].last_update

\* C1: the batch process_topic gives to the Destination Writer holds each pmid
\* that the search returned and that is not in the topic's processed_pmids
\* exactly once, and no other pmid.
C1_BatchHoldsEachNewPmidOnce ==
    (Called /\ ~last.raised) =>
        /\ Range(BatchPmids(last.batch)) = Range(last.pmids) \ Range(last.processed)
        /\ NoDuplicates(BatchPmids(last.batch))

\* C2: starting from the empty state, after any sequence of runs no topic's
\* processed_pmids holds a pmid twice, in memory or in the state file.
C2_ProcessedHasNoDuplicates ==
    \A t \in TopicNames :
        /\ NoDuplicates(state.topics[t].processed_pmids)
        /\ NoDuplicates(load_state(file).topics[t].processed_pmids)

\* C3: no pmid that was in the topic's processed_pmids when the run loaded the
\* state is in a batch given to the Destination Writer for that topic.
C3_NoProcessedPmidResubmitted ==
    Called =>
        Range(BatchPmids(last.batch))
            \cap Range(pre.topics[last.topic].processed_pmids) = {}

\* C3 witness: the search returned a pmid recorded before the run together with
\* a new one, and a batch went to the writer.
C3_Witness ==
    /\ Called
    /\ last.batch # <<>>
    /\ Range(last.pmids) \cap Range(pre.topics[last.topic].processed_pmids) # {}

\* C4, state part: in a preview run no POST is sent, every topic's
\* processed_pmids and last_update stay as loaded, save_state is not called,
\* and the written count that is returned and reported is the number of items
\* that would be written.
C4_PreviewState ==
    (args.dry_run /\ pc \in {"loop", "done", "crashed"}) =>
        /\ ~last.sent
        /\ \A t \in TopicNames : TopicAsLoaded(t)
        /\ saves = 0
        /\ (Called /\ ~last.raised) =>
                /\ last.ret[3] = Len(last.batch)
                /\ last.ret[3] = last.ret[2]
                /\ results[Len(results)].name = last.topic
                /\ results[Len(results)].written = Len(last.batch)

\* C4, file part: no step of a preview run changes the state file.
C4_PreviewFileStep ==
    (args.dry_run /\ pc = "loop") => file' = file

\* C4: a preview run sends nothing to the destination, changes no topic's
\* processed_pmids or last_update, never writes the state file, and reports the
\* would-be count as written.
C4_PreviewIsolation == [](C4_PreviewState) /\ [][C4_PreviewFileStep]_vars

\* C4 witness: a preview run with credentials set and a state file with
\* recorded pmids has finished after reporting a positive would-be count.
C4_Witness ==
    /\ args.dry_run /\ creds /\ pc = "done"
    /\ file.kind = "doc"
    /\ \E i \in 1..Len(results) : results[i].written > 0
    /\ \E t \in TopicNames : pre.topics[t].processed_pmids # <<>>

\* C5: in a non-preview run every topic's processed_pmids has the sequence that
\* was loaded at the start of the run as a prefix, whether the write succeeded,
\* failed or nothing was new.
C5_ProcessedOnlyGrows ==
    (~args.dry_run /\ pc \in {"loop", "done", "crashed"}) =>
        \A t \in TopicNames :
            IsPrefix(pre.topics[t].processed_pmids, state.topics[t].processed_pmids)

\* C5 witness: a non-preview run has finished in which one topic with recorded
\* pmids got more appended and another topic's write failed.
C5_Witness ==
    /\ ~args.dry_run /\ pc = "done"
    /\ \E t \in TopicNames :
        /\ pre.topics[t].processed_pmids # <<>>
        /\ Len(state.topics[t].processed_pmids) > Len(pre.topics[t].processed_pmids)
    /\ \E i \in 1..Len(results) : results[i].new > 0 /\ results[i].written = 0

\* The call that has just returned or raised is a call for the watched topic.
WatchedCall == Called /\ last.topic = hist.topic

\* C6: when the write of a non-preview call reports zero successes, the topic's
\* processed_pmids and last_update are left as they were, nothing is sent
\* without credentials, and the next call for the topic whose search returns a
\* pmid of the failed batch classifies it as new again.
C6_FailedWriteLeavesStateAndRetries ==
    /\ (Called /\ ~last.raised /\ ~last.dry_run /\ last.batch # <<>> /\ last.ret[3] = 0) =>
            /\ state.topics[last.topic].processed_pmids = last.processed
            /\ TopicAsLoaded(last.topic)
            /\ ~creds => ~last.sent
    /\ (WatchedCall /\ last.search = "ok") =>
            \A p \in prev.pending :
                p \in Range(last.pmids) => p \in Range(last.new_pmids)

\* C6 witness: the write of a batch failed in the run before, the search
\* returns one of its pmids again, it is classified as new, and the write
\* fails once more, this time for want of credentials.
C6_Witness ==
    /\ WatchedCall /\ ~last.raised /\ ~last.dry_run
    /\ prev.ran /\ prev.written = 0
    /\ \E p \in prev.pending : p \in Range(last.new_pmids)
    /\ last.batch # <<>> /\ last.ret[3] = 0 /\ ~creds
    /\ file.kind = "doc"

\* The watched topic is called a second time in succession, non-preview, with
\* the state carried over from the first call and the same search result.
SecondCallSameResult ==
    /\ WatchedCall /\ ~last.raised /\ ~last.dry_run
    /\ prev.ran
    /\ last.processed = prev.after
    /\ last.pmids = prev.pmids

\* C7 as stated: the second of two successive calls with the same search
\* result returns new = 0 and written = 0.
C7_SecondRunFindsNothingNew ==
    SecondCallSameResult => (last.ret[2] = 0 /\ last.ret[3] = 0)

\* C7 amended: the second of two successive calls with the same search result
\* returns new = 0 and written = 0 when the write of the first call did not
\* fail (it reported success, or nothing was new).
C7_SecondRunFindsNothingNewAfterSuccess ==
    (SecondCallSameResult /\ (prev.written > 0 \/ prev.new = 0)) =>
        (last.ret[2] = 0 /\ last.ret[3] = 0)

\* C7 witness: the first call wrote a batch, the second gets the same
\* search result and finds nothing new.
C7_Witness ==
    /\ SecondCallSameResult
    /\ prev.written > 0
    /\ last.ret = <<Len(prev.pmids), 0, 0>>

\* C8: when the write of a non-preview call reports success, the topic's
\* processed_pmids is the sequence from before the call followed by the pmids
\* the search returned that were not in it, in the search's order; last_update
\* is stamped with the time of the run; the call returns (found, new, new), and
\* so says the entry in the results - whatever summaries were returned.
C8_SuccessAppendsNewInOrder ==
    (Called /\ ~last.raised /\ ~last.dry_run /\ last.ret[3] > 0) =>
        LET new == SelectSeq(last.pmids, LAMBDA p : p \notin Range(last.processed))
        IN  /\ state.topics[last.topic].processed_pmids = last.processed \o new
            /\ state.topics[last.topic].last_update = runs
            /\ last.ret = <<Len(last.pmids), Len(new), Len(new)>>
            /\ results[Len(results)] =
                    [name |-> last.topic, found |-> Len(last.pmids),
                     new |-> Len(new), written |-> Len(new)]

\* C8 witness: a successful write of a batch in which one record has its
\* summary and another has none.
C8_Witness ==
    /\ Called /\ ~last.raised /\ ~last.dry_run /\ last.ret[3] > 0
    /\ \E i, j \in 1..Len(last.batch) :
            last.batch[i].title = "summary" /\ last.batch[j].title = "placeholder"

\* C9: when the search fails for a topic, the results get an entry for it with
\* found = 0, new = 0, written = 0, its TopicState is as loaded, and the run
\* goes on to the remaining topics.
C9_FailedSearchReportsZeroAndGoesOn ==
    (Called /\ last.search \in {"request_error", "bad_payload"}) =>
        /\ pc = "loop"
        /\ results # <<>>
        /\ results[Len(results)] =
                [name |-> last.topic, found |-> 0, new |-> 0, written |-> 0]
        /\ TopicAsLoaded(last.topic)

\* C10: the batch given to the Destination Writer has one record per new pmid,
\* in order, whatever subset of them the Summary Fetcher returned a summary
\* for; a call that returns with new pmids gave such a batch to the writer;
\* and on success every new pmid, with a summary or not, is in processed_pmids.
C10_NoNewPmidDroppedForMissingSummary ==
    Called =>
        /\ last.batch # <<>> => BatchPmids(last.batch) = last.new_pmids
        /\ (~last.raised /\ last.new_pmids # <<>>) => last.batch # <<>>
        /\ (~last.raised /\ ~last.dry_run /\ last.ret[3] > 0) =>
                Range(last.new_pmids)
                    \subseteq Range(state.topics[last.topic].processed_pmids)

\* C10 witness: a batch was written in which no record has a summary (the
\* fetch failed or returned nothing), and its pmids are in processed_pmids.
C10_Witness ==
    /\ Called /\ ~last.raised /\ ~last.dry_run /\ last.ret[3] > 0
    /\ Len(last.batch) > 1
    /\ \A i \in 1..Len(last.batch) : last.batch[i].title = "placeholder"
    /\ Range(BatchPmids(last.batch))
            \subseteq Range(state.topics[last.topic].processed_pmids)

\* The call that has just returned or raised is one whose wire is watched.
WireWatched == Called /\ last.topic = dest.topic

\* C11: the destination creates the records of the batch of one call at most
\* once: the transport does not send the POST again after an attempt on which
\* the destination may have created them.
C11_BatchCreatedAtMostOnce ==
    (WireWatched /\ last.sent) => last.wire.created <= 1

\* C12: every pmid in the watched topic's processed_pmids, in memory and in
\* the state file, is one the destination confirmed as written for that topic.
C12_ProcessedWasConfirmed ==
    \A t \in TopicNames :
        t = dest.topic =>
            /\ Range(state.topics[t].processed_pmids) \subseteq dest.confirmed
            /\ Range(load_state(file).topics[t].processed_pmids) \subseteq dest.confirmed

\* C13: whenever the state file is absent, unreadable or does not hold a
\* document of the RunState shape, the run works on the fresh empty RunState,
\* and no exception of the run comes from the loaded state.
C13_MalformedStateLoadsEmpty ==
    pc # "idle" =>
        /\ pre.shape = "RunState"
        /\ ~(Called /\ last.raised /\ last.search = "none")

\* C14: after save_state was called, a load of the state file yields for every
\* topic a processed_pmids that has every pmid the state file held for the
\* topic when the run loaded it.
C14_SaveNeverLosesRecordedPmids ==
    (pc = "done" /\ saves > 0) =>
        \A t \in TopicNames :
            Range(pre.topics[t].processed_pmids)
                \subseteq Range(load_state(file).topics[t].processed_pmids)

\* The names of the entries of results["topics"], in order.
ResultNames == [i \in 1..Len(results) |-> results[i].name]

\* The names of the topics selected by the arguments, in configured order.
SelectedNames ==
    [i \in 1..Len(topics_to_process(args)) |-> topics_to_process(args)[i].name]

\* C15: a run that has started on its topics with a well-formed state is never
\* left by an exception, whatever the search, the summaries, the write and the
\* save do; the results get one entry per selected topic in configured order,
\* and main returns 0.
C15_RunCompletes ==
    (pre.shape = "RunState" /\ ~args.status /\ ~args.list_topics) =>
        /\ pc # "crashed"
        /\ pc = "loop" => ResultNames = SubSeq(SelectedNames, 1, idx - 1)
        /\ pc = "done" => (ResultNames = SelectedNames /\ rc = 0)

\* The invocation is a run over topics: not --status, not --list-topics, and
\* the topic selection is not empty.
TopicRun ==
    /\ pc \in {"loop", "done", "crashed"}
    /\ ~args.status /\ ~args.list_topics

\* This run's save_state wrote the document that is in the state file.
SavedThisRun ==
    /\ pc = "done" /\ saves = 1
    /\ file.kind = "doc" /\ file.doc.last_run = runs

\* The write for topic t reported success in this run.
WroteFor(t) == \E i \in 1..Len(results) : results[i].name = t /\ results[i].written > 0

\* C16: in a non-preview run save_state is not called while topics are being
\* processed and has been called exactly once when the run has ended; the
\* document it writes is the in-memory state with last_run stamped, and holds
\* the new pmids of every topic whose write succeeded.
C16_SavedOnceAfterAllTopics ==
    (TopicRun /\ ~args.dry_run /\ pre.shape = "RunState") =>
        /\ pc = "loop" => saves = 0
        /\ pc \in {"done", "crashed"} => saves = 1
        /\ SavedThisRun =>
                /\ file.doc = state
                /\ \A t \in TopicNames :
                        WroteFor(t) =>
                            /\ file.doc.topics[t].last_update = runs
                            /\ Len(file.doc.topics[t].processed_pmids)
                                    > Len(pre.topics[t].processed_pmids)

\* C17: when a run has saved the state, the entry of every topic that was in
\* the loaded state file is in the saved file as it was loaded, unless the
\* topic's write succeeded in this run: then the loaded processed_pmids is a
\* prefix of the saved one and last_update is the time of this run.
C17_LoadedEntriesRoundTrip ==
    SavedThisRun =>
        \A t \in TopicNames :
            pre.topics[t].present =>
                IF WroteFor(t)
                THEN /\ IsPrefix(pre.topics[t].processed_pmids,
                                 file.doc.topics[t].processed_pmids)
                     /\ file.doc.topics[t].last_update = runs
                     /\ file.doc.topics[t].present
                ELSE file.doc.topics[t] = pre.topics[t]

\* C17 witness: a single-topic run has saved the state; the selected topic had
\* recorded pmids and got more appended, another topic with recorded pmids was
\* not selected and is in the saved file as it was loaded.
C17_Witness ==
    /\ SavedThisRun /\ args.topic \in TopicNames
    /\ pre.topics[args.topic].processed_pmids # <<>>
    /\ WroteFor(args.topic)
    /\ Len(file.doc.topics[args.topic].processed_pmids)
            > Len(pre.topics[args.topic].processed_pmids)
    /\ \E u \in TopicNames \ {args.topic} :
            /\ pre.topics[u].processed_pmids # <<>>
            /\ file.doc.topics[u] = pre.topics[u]

\* C18: a pmid that was in the watched topic's processed_pmids when the
\* topic's previous call returned is not classified as new by the next call
\* for the topic.
C18_ProcessedNeverNewAgain ==
    (WatchedCall /\ prev.ran) =>
        Range(last.new_pmids) \cap Range(prev.after) = {}

\* C19: an invocation that has ended returned 1 when --topic named no
\* configured topic and 0 otherwise; with an unknown topic, --status or
\* --list-topics nothing was processed, sent or saved.
C19_ExitStatus ==
    Stopped =>
        /\ rc = (IF ~args.status /\ ~args.list_topics /\ topics_to_process(args) = <<>>
                 THEN 1 ELSE 0)
        /\ (args.status \/ args.list_topics \/ topics_to_process(args) = <<>>) =>
                /\ ~Called /\ results = <<>> /\ saves = 0
                /\ state = pre

\* C20, classification part: the new pmids of a call for a topic are the pmids
\* the search returned that are not in that topic's own processed_pmids,
\* whatever the other topics have recorded, and they are the batch given to
\* the Destination Writer.
C20_OwnProcessedDecides ==
    (Called /\ ~last.raised) =>
        /\ last.new_pmids =
                SelectSeq(last.pmids, LAMBDA p : p \notin Range(last.processed))
        /\ last.new_pmids # <<>> => BatchPmids(last.batch) = last.new_pmids

\* C20, frame part: a call of process_topic leaves the entry of every other
\* topic as it was.
C20_OtherTopicsStep ==
    (pc = "loop" /\ last'.topic # None) =>
        \A u \in TopicNames \ {last'.topic} : state'.topics[u] = state.topics[u]

\* C20: deduplication is per topic: a topic's own processed_pmids alone decides
\* which found pmids are new and submitted, and processing a topic changes no
\* other topic's entry.
C20_DedupPerTopic == [](C20_OwnProcessedDecides) /\ [][C20_OtherTopicsStep]_vars

\* C20 witness: a pmid that is in another topic's processed_pmids was found by
\* the search for this topic, classified as new and sent to the destination.
C20_Witness ==
    /\ Called /\ ~last.raised /\ last.sent
    /\ \E u \in TopicNames \ {last.topic} :
            \E p \in Range(state.topics[u].processed_pmids) :
                /\ p \in Range(BatchPmids(last.batch))
                /\ p \notin Range(last.processed)

====
